---- MODULE Spec2Model ----
(***************************************************************************)
(* Model of the JARVIS voice front-end: the LiveClient service             *)
(* (services/liveClient.ts) and the App component that drives it           *)
(* (App.tsx).  One client at a time is modelled: its audio contexts, its   *)
(* microphone stream, its session with the endpoint, its playback          *)
(* scheduler (sources / nextStartTime) and the tool-call protocol.         *)
(*                                                                         *)
(* The JavaScript event loop is modelled by one action per callback or     *)
(* per run-to-next-await segment of an async function.                     *)
(***************************************************************************)
EXTENDS Integers, Sequences, FiniteSets, TLC

(* ------------------------------ bounds -------------------------------- *)
MaxTime  == 2   \* the output device clock runs over 0..MaxTime
MaxDur   == 2   \* decoded chunk durations are 1..MaxDur
MaxMsgs  == 2   \* inbound messages delivered by the endpoint
MaxCalls == 2   \* function calls carried by all tool-call batches together
MaxBatch == 2   \* function calls in one tool-call batch
MaxSessions == 2 \* clients created by handlePermissionGranted
MaxFrames == 2   \* microphone frames delivered to onaudioprocess
MaxDisconnects == 2 \* direct calls of disconnect() on the client

(* ----------------------------- constants ------------------------------ *)
\* types.ts, enum AssistantMode
AssistantMode == {"GENERAL", "HOMEWORK", "GK_QUIZ", "SCIENCE"}
\* types.ts, enum ConnectionState
ConnectionState ==
  {"IDLE", "REQUESTING_PERMISSION", "CONNECTING", "CONNECTED", "ERROR"}

\* mode arguments the endpoint may put in a function call: members of the
\* enumeration and one string outside it
ArgModes == {"HOMEWORK", "SCIENCE", "BOGUS"}

VARIABLES
  connectionState,    \* App: useState<ConnectionState>
  assistantMode,      \* App: useState<AssistantMode>
  liveClientRef,      \* App: liveClientRef.current is a client (TRUE) or null
  inputAudioContext,  \* "null" | "running" | "closed"
  outputAudioContext, \* "null" | "running" | "closed"
  stream,             \* "null" | "live" | "stopped"  (microphone tracks)
  scriptProcessor,    \* "null" | "connected" | "disconnected" (capture tap)
  session,            \* "null" | "pending" | "resolved" | "rejected"
  ws,                 \* endpoint side: "none" | "connecting" | "open" | "closed"
  sources,            \* set of indices into handles (the live set)
  nextStartTime,      \* the playback clock
  handles,            \* every AudioBufferSourceNode ever started, in start order
  msgs,               \* every inbound message handled, in arrival order
  now,                \* outputAudioContext.currentTime
  epoch,              \* number of stopAllAudio() calls so far
  notified,           \* modes passed to callbacks.onModeChange, in order
  thenQueue,          \* response batches waiting in this.session.then(...)
  sentAcks,           \* response batches given to session.sendToolResponse
  fcCount,            \* function calls delivered so far
  connPc,             \* connect(): "none" | "getUserMedia" | "handshake" | "done"
  discPc,             \* handleDisconnect(): "none" | "closeIn" | "closeOut"
  discDone,           \* number of completed handleDisconnect() calls
  sessCount,          \* number of clients created so far
  stopRaised,         \* an exception has escaped from stopAllAudio()
  frameCount,         \* microphone frames processed by onaudioprocess
  frameQueue,         \* frames waiting in sessionPromise.then(...)
  sentFrames,         \* frames given to session.sendRealtimeInput
  sendFailed,         \* a send on the session has thrown
  discCalls,          \* number of disconnect() calls begun
  discRaised,         \* a disconnect() call has rejected
  discCaller,         \* who awaits disconnect(): "app" (handleDisconnect) or "direct"
  discAt,             \* where connect() and the session stood at the last disconnect() call
  orphans             \* what each replaced client still held when liveClientRef was overwritten

vars == << connectionState, assistantMode, liveClientRef, inputAudioContext,
           outputAudioContext, stream, scriptProcessor, session, ws, sources,
           nextStartTime, handles, msgs, now, epoch, notified, thenQueue,
           sentAcks, fcCount, connPc, discPc, discDone, sessCount, stopRaised,
           frameCount, frameQueue, sentFrames, sendFailed, discCalls,
           discRaised, discCaller, discAt, orphans >>

appVars    == << connectionState, assistantMode, liveClientRef >>
deviceVars == << inputAudioContext, outputAudioContext, stream, scriptProcessor >>
playVars   == << sources, nextStartTime, handles, epoch, stopRaised >>
toolVars   == << notified, thenQueue, sentAcks, fcCount >>
capVars    == << frameCount, frameQueue, sentFrames, sendFailed >>
callVars   == << discCalls, discRaised, discCaller, discAt, orphans >>

(* ------------------------------ helpers ------------------------------- *)
Max(a, b) == IF a >= b THEN a ELSE b

RECURSIVE Flatten(_)
Flatten(ss) == IF ss = << >> THEN << >> ELSE Head(ss) \o Flatten(Tail(ss))

RECURSIVE SeqsUpTo(_, _)
SeqsUpTo(S, n) ==
  IF n = 0 THEN { << >> }
  ELSE LET shorter == SeqsUpTo(S, n - 1)
       IN  shorter \cup { Append(s, x) : s \in shorter, x \in S }

(* --------------------- pure parts of LiveClient ----------------------- *)
\* handleMessage: `if (fc.name === 'setAssistantMode')`
IsSetMode(fc) == fc.name = "setAssistantMode"

\* handleMessage: the object pushed on `responses` for one function call;
\* the result is the template string `Mode set to ${mode}`
Response(fc) ==
  [id |-> fc.id, name |-> fc.name, result |-> << "Mode set to", fc.mode >>]

\* faulty variant: each response overwrites the array instead of being
\* pushed, so only the last call of a batch is acknowledged
Responses_LastOnly(functionCalls) ==
  LET sel == SelectSeq(functionCalls, IsSetMode)
  IN  IF sel = << >> THEN << >>
      ELSE << [id |-> sel[Len(sel)].id, name |-> sel[Len(sel)].name,
               result |-> << "Mode set to", sel[Len(sel)].mode >>] >>

\* handleMessage: the `responses` array built by the loop over functionCalls
Responses(functionCalls) ==
  LET sel == SelectSeq(functionCalls, IsSetMode)
  IN  [i \in 1..Len(sel) |-> Response(sel[i])]

\* handleMessage: the modes passed to callbacks.onModeChange by the loop
Notifications(functionCalls) ==
  LET sel == SelectSeq(functionCalls, IsSetMode)
  IN  [i \in 1..Len(sel) |-> sel[i].mode]

\* faulty variant: the clock is overwritten by the device time (no max)
ScheduleTime_NoMax(clock, currentTime) == currentTime

\* handleMessage: Math.max(this.nextStartTime, outputAudioContext.currentTime)
ScheduleTime(clock, currentTime) == Max(clock, currentTime)

\* faulty variant: the clock is not advanced by the chunk's duration
AdvanceClock_Stuck(clock, duration) == clock

\* handleMessage: `this.nextStartTime += audioBuffer.duration`
AdvanceClock(clock, duration) == clock + duration

\* AudioBufferSourceNode.start(when): a `when` that is already past plays at
\* once, so playback begins at the later of `when` and the time of the call
EffectiveStart(h) == Max(h.start, h.at)

\* a source whose playback is over although its 'ended' event has not been
\* delivered yet
Finished(h, t) == h.st = "playing" /\ t >= EffectiveStart(h) + h.dur

\* faulty variant: stop() is called without try/catch, so the first source
\* whose stop() throws ends the loop; the set is not cleared and the clock
\* is not reset
StopAllAudio_NoCatch(hs, srcs, clock, raising) ==
  LET first == IF raising \cap srcs = {} THEN 0
               ELSE CHOOSE i \in raising \cap srcs :
                      \A j \in raising \cap srcs : i <= j
  IN
  IF first = 0
    THEN [ handles       |-> [i \in DOMAIN hs |->
                                IF i \in srcs
                                  THEN [hs[i] EXCEPT !.st = "stopped"]
                                  ELSE hs[i]],
           sources       |-> {},
           nextStartTime |-> 0,
           raised        |-> FALSE ]
    ELSE [ handles       |-> [i \in DOMAIN hs |->
                                IF i \in srcs /\ i < first
                                  THEN [hs[i] EXCEPT !.st = "stopped"]
                                  ELSE IF i = first
                                    THEN [hs[i] EXCEPT !.threw = TRUE]
                                    ELSE hs[i]],
           sources       |-> srcs,
           nextStartTime |-> clock,
           raised        |-> TRUE ]

\* faulty variant: the set is cleared but the clock keeps its value
StopAllAudio_KeepClock(hs, srcs, clock, raising) ==
  [ handles       |-> [i \in DOMAIN hs |->
                         IF i \in srcs
                           THEN [hs[i] EXCEPT !.st = "stopped",
                                              !.threw = i \in raising]
                           ELSE hs[i]],
    sources       |-> {},
    nextStartTime |-> clock,
    raised        |-> FALSE ]

\* faulty variant: the sources are stopped but the set is not cleared
StopAllAudio_NoClear(hs, srcs, clock, raising) ==
  [ handles       |-> [i \in DOMAIN hs |->
                         IF i \in srcs
                           THEN [hs[i] EXCEPT !.st = "stopped",
                                              !.threw = i \in raising]
                           ELSE hs[i]],
    sources       |-> srcs,
    nextStartTime |-> 0,
    raised        |-> FALSE ]

\* stopAllAudio(): stop every source in the set (`try { source.stop() }
\* catch(e) {}` per source), clear the set, reset the clock.  `raising` are
\* the sources whose stop() throws; `threw` records it on the handle.
StopAllAudio(hs, srcs, clock, raising) ==
  [ handles       |-> [i \in DOMAIN hs |->
                         IF i \in srcs
                           THEN [hs[i] EXCEPT !.st = "stopped",
                                              !.threw = i \in raising]
                           ELSE hs[i]],
    sources       |-> {},
    nextStartTime |-> 0,
    raised        |-> FALSE ]

\* the sources on which stop() may throw: those already finished
MayRaise(hs, srcs, t) == { i \in srcs : Finished(hs[i], t) }

\* a queue that runs the callback registered last first
Enqueue_Front(queue, cb) == << cb >> \o queue

\* promise.then(cb) on the session promise: callbacks run in the order of
\* their registration
Enqueue(queue, cb) == Append(queue, cb)

\* a send made on the session promise whether or not it is fulfilled
SessionReady_Always(sess) == TRUE

\* a callback given to sessionPromise.then runs once the promise is fulfilled
SessionReady(sess) == sess = "resolved"

(* ------------------------------- Init --------------------------------- *)
Init ==
  /\ connectionState = "IDLE"
  /\ assistantMode = "GENERAL"
  /\ liveClientRef = FALSE
  /\ inputAudioContext = "null"
  /\ outputAudioContext = "null"
  /\ stream = "null"
  /\ scriptProcessor = "null"
  /\ session = "null"
  /\ ws = "none"
  /\ sources = {}
  /\ nextStartTime = 0
  /\ handles = << >>
  /\ msgs = << >>
  /\ now = 0
  /\ epoch = 0
  /\ notified = << >>
  /\ thenQueue = << >>
  /\ sentAcks = << >>
  /\ fcCount = 0
  /\ connPc = "none"
  /\ discPc = "none"
  /\ discDone = 0
  /\ sessCount = 0
  /\ stopRaised = FALSE
  /\ frameCount = 0
  /\ frameQueue = << >>
  /\ sentFrames = << >>
  /\ sendFailed = FALSE
  /\ discCalls = 0
  /\ discRaised = FALSE
  /\ discCaller = "none"
  /\ discAt = << "none", "null" >>
  /\ orphans = << >>

(* ----------------------------- App, connect --------------------------- *)
\* App.handleStartRequest
HandleStartRequest ==
  /\ connectionState = "IDLE"
  /\ connectionState' = "REQUESTING_PERMISSION"
  /\ UNCHANGED << assistantMode, liveClientRef, deviceVars, session, ws,
                  playVars, msgs, now, toolVars, connPc, discPc, discDone,
                  sessCount, capVars, callVars >>

\* App: the DENY button of the permission panel
CancelRequest ==
  /\ connectionState = "REQUESTING_PERMISSION"
  /\ connectionState' = "IDLE"
  /\ UNCHANGED << assistantMode, liveClientRef, deviceVars, session, ws,
                  playVars, msgs, now, toolVars, connPc, discPc, discDone,
                  sessCount, capVars, callVars >>

\* App.handlePermissionGranted up to the first await of LiveClient.connect:
\* a new client, both audio contexts created, getUserMedia requested
HandlePermissionGranted ==
  /\ connectionState = "REQUESTING_PERMISSION"
  /\ discPc = "none"
  /\ sessCount < MaxSessions
  /\ connectionState' = "CONNECTING"
  /\ assistantMode' = "GENERAL"
  /\ liveClientRef' = TRUE
  /\ inputAudioContext' = "running"
  /\ outputAudioContext' = "running"
  /\ stream' = "null"
  /\ scriptProcessor' = "null"
  /\ session' = "null"
  /\ ws' = "none"
  /\ sources' = {}
  /\ nextStartTime' = 0
  /\ handles' = << >>
  /\ msgs' = << >>
  /\ now' = 0
  /\ epoch' = 0
  /\ stopRaised' = FALSE
  /\ notified' = << >>
  /\ thenQueue' = << >>
  /\ sentAcks' = << >>
  /\ connPc' = "getUserMedia"
  /\ sessCount' = sessCount + 1
  /\ frameCount' = 0
  /\ frameQueue' = << >>
  /\ sentFrames' = << >>
  /\ sendFailed' = FALSE
  /\ orphans' = IF sessCount = 0 THEN orphans
                ELSE Append(orphans, [stream |-> stream, ws |-> ws])
  /\ UNCHANGED << fcCount, discPc, discDone, discCalls, discRaised, discCaller,
                  discAt >>

\* connect: getUserMedia resolves; ai.live.connect is called and awaited
GetUserMediaOk ==
  /\ connPc = "getUserMedia"
  /\ stream' = "live"
  /\ session' = "pending"
  /\ ws' = "connecting"
  /\ connPc' = "handshake"
  /\ UNCHANGED << appVars, inputAudioContext, outputAudioContext,
                  scriptProcessor, playVars, msgs, now, toolVars, discPc,
                  discDone, sessCount, capVars, callVars >>

\* an onError callback that leaves the connection state as it is
OnErrorCallback_Ignored(state) == state

\* App's onError callback: setConnectionState(ConnectionState.ERROR)
OnErrorCallback(state) == "ERROR"

\* connect: getUserMedia rejects; the catch block calls callbacks.onError
GetUserMediaFail ==
  /\ connPc = "getUserMedia"
  /\ connPc' = "done"
  /\ connectionState' = OnErrorCallback(connectionState)
  /\ UNCHANGED << assistantMode, liveClientRef, deviceVars, session, ws,
                  playVars, msgs, now, toolVars, discPc, discDone, sessCount, capVars, callVars >>

\* startAudioInput: the capture tap is created and connected
StartAudioInput(inCtx, str, tap) ==
  IF inCtx = "null" \/ str = "null" THEN tap ELSE "connected"

\* the onopen callback: callbacks.onOpen() then startAudioInput
OnOpen ==
  /\ ws = "connecting"
  /\ ws' = "open"
  /\ connectionState' = "CONNECTED"
  /\ scriptProcessor' = StartAudioInput(inputAudioContext, stream, scriptProcessor)
  /\ UNCHANGED << assistantMode, liveClientRef, inputAudioContext,
                  outputAudioContext, stream, session, playVars, msgs, now,
                  toolVars, connPc, discPc, discDone, sessCount, capVars, callVars >>

\* connect: `await sessionPromise` resolves after the open
SessionResolve ==
  /\ ws = "open"
  /\ session = "pending"
  /\ session' = "resolved"
  /\ connPc' = "done"
  /\ UNCHANGED << appVars, deviceVars, ws, playVars, msgs, now, toolVars,
                  discPc, discDone, sessCount, capVars, callVars >>

\* connect: the handshake fails, sessionPromise rejects, catch -> onError
HandshakeFail ==
  /\ ws = "connecting"
  /\ ws' = "closed"
  /\ session' = "rejected"
  /\ connPc' = "done"
  /\ connectionState' = OnErrorCallback(connectionState)
  /\ UNCHANGED << assistantMode, liveClientRef, deviceVars, playVars, msgs,
                  now, toolVars, discPc, discDone, sessCount, capVars, callVars >>

\* the onclose callback: App's onClose
OnClose ==
  /\ ws = "open"
  /\ ws' = "closed"
  /\ connectionState' = "IDLE"
  /\ assistantMode' = "GENERAL"
  /\ UNCHANGED << liveClientRef, deviceVars, session, playVars, msgs, now,
                  toolVars, connPc, discPc, discDone, sessCount, capVars, callVars >>

\* the onerror callback: App's onError
OnError ==
  /\ ws = "open"
  /\ connectionState' = OnErrorCallback(connectionState)
  /\ UNCHANGED << assistantMode, liveClientRef, deviceVars, session, ws,
                  playVars, msgs, now, toolVars, connPc, discPc, discDone,
                  sessCount, capVars, callVars >>

\* App: the REBOOT SYSTEM button of the error panel
Reboot ==
  /\ connectionState = "ERROR"
  /\ connectionState' = "IDLE"
  /\ UNCHANGED << assistantMode, liveClientRef, deviceVars, session, ws,
                  playVars, msgs, now, toolVars, connPc, discPc, discDone,
                  sessCount, capVars, callVars >>

(* ------------------------- inbound messages --------------------------- *)
\* the function calls the endpoint may send: a name and a mode argument
FcKinds ==
  { << "setAssistantMode", m >> : m \in ArgModes } \cup { << "otherTool", "none" >> }

\* a tool-call batch whose ids continue the endpoint's numbering
MkBatch(kinds, base) ==
  [i \in 1..Len(kinds) |->
     [id |-> base + i, name |-> kinds[i][1], mode |-> kinds[i][2]]]

\* audio part of a message: 0 = no inline data, -1 = inline data that does
\* not decode, d > 0 = inline data that decodes to a buffer of duration d
AudioParts == {0, -1} \cup (1..MaxDur)

\* decodeAudioData(base64ToUint8Array(data), ctx, 24000, 1): the duration of
\* the decoded buffer, or a DecodeError for bytes that do not decode
DecodeAudioData(audio) ==
  IF audio > 0 THEN [ok |-> TRUE, duration |-> audio]
               ELSE [ok |-> FALSE, duration |-> 0]

\* the record kept for a started AudioBufferSourceNode
NewHandle(m, clock, duration, t, e) ==
  [msg |-> m, start |-> clock, dur |-> duration, at |-> t, epoch |-> e,
   st |-> "playing", ev |-> FALSE, threw |-> FALSE]

\* handleMessage from its entry to its first await or its return: the tool
\* calls, the output-context guard, the clock update before the decode, and,
\* for a message without audio, the interruption check
HandleMessage(kinds, audio, interrupted, raising) ==
  LET fcs     == MkBatch(kinds, fcCount)
      resp    == Responses(fcs)
      notes   == Notifications(fcs)
      noCtx   == outputAudioContext = "null"
      decodes == ~noCtx /\ audio # 0
      stops   == ~noCtx /\ audio = 0 /\ interrupted
      stopped == StopAllAudio(handles, sources, nextStartTime, raising)
  IN
  /\ ws = "open"
  /\ Len(msgs) < MaxMsgs
  /\ fcCount + Len(kinds) <= MaxCalls
  /\ fcCount' = fcCount + Len(kinds)
  /\ notified' = notified \o notes
  /\ assistantMode' = IF notes = << >> THEN assistantMode ELSE notes[Len(notes)]
  /\ thenQueue' = IF Len(resp) > 0 THEN Enqueue(thenQueue, resp) ELSE thenQueue
  /\ msgs' = Append(msgs,
       [tool |-> fcs, audio |-> audio, interrupted |-> interrupted,
        arrEpoch |-> epoch, chunk |-> 0,
        intDone |-> stops /\ ~stopped.raised,
        fin |-> IF decodes THEN "decoding"
                ELSE IF stops /\ stopped.raised THEN "threw" ELSE "returned"])
  /\ IF decodes
       THEN /\ nextStartTime' = ScheduleTime(nextStartTime, now)
            /\ UNCHANGED << sources, handles, epoch, stopRaised >>
       ELSE IF stops
         THEN /\ handles' = stopped.handles
              /\ sources' = stopped.sources
              /\ nextStartTime' = stopped.nextStartTime
              /\ epoch' = epoch + 1
              /\ stopRaised' = (stopRaised \/ stopped.raised)
         ELSE UNCHANGED playVars
  /\ UNCHANGED << connectionState, liveClientRef, deviceVars, session, ws, now,
                  sentAcks, connPc, discPc, discDone, sessCount, capVars, callVars >>

\* handleMessage after `await decodeAudioData(...)`: the source is created,
\* started at the clock, the clock advanced, the source added to the set;
\* then the interruption check
DecodeDone(i, raising) ==
  LET m       == msgs[i]
      h       == NewHandle(i, nextStartTime, DecodeAudioData(m.audio).duration, now, epoch)
      hs1     == Append(handles, h)
      src1    == sources \cup {Len(hs1)}
      clock1  == AdvanceClock(nextStartTime, h.dur)
      stopped == StopAllAudio(hs1, src1, clock1, raising)
  IN
  /\ m.fin = "decoding"
  /\ DecodeAudioData(m.audio).ok
  /\ raising \subseteq MayRaise(hs1, src1, now)
  /\ IF m.interrupted
       THEN /\ handles' = stopped.handles
            /\ sources' = stopped.sources
            /\ nextStartTime' = stopped.nextStartTime
            /\ epoch' = epoch + 1
            /\ stopRaised' = (stopRaised \/ stopped.raised)
       ELSE /\ handles' = hs1
            /\ sources' = src1
            /\ nextStartTime' = clock1
            /\ UNCHANGED << epoch, stopRaised >>
  /\ msgs' = [msgs EXCEPT ![i].chunk = Len(hs1),
                          ![i].intDone = m.interrupted /\ ~stopped.raised,
                          ![i].fin = IF m.interrupted /\ stopped.raised
                                       THEN "threw" ELSE "returned"]
  /\ UNCHANGED << appVars, deviceVars, session, ws, now, toolVars, connPc,
                  discPc, discDone, sessCount, capVars, callVars >>

\* handleMessage when `await decodeAudioData(...)` rejects: nothing catches
\* it, the rest of the handler does not run
DecodeFail(i) ==
  /\ msgs[i].fin = "decoding"
  /\ ~DecodeAudioData(msgs[i].audio).ok
  /\ msgs' = [msgs EXCEPT ![i].fin = "threw"]
  /\ UNCHANGED << appVars, deviceVars, session, ws, playVars, now, toolVars,
                  connPc, discPc, discDone, sessCount, capVars, callVars >>

\* the 'ended' listener of a source: `this.sources.delete(source)`
OnEnded(i) ==
  /\ ~handles[i].ev
  /\ handles[i].st = "stopped" \/ Finished(handles[i], now)
  /\ handles' = [handles EXCEPT ![i].ev = TRUE,
                                ![i].st = IF @ = "playing" THEN "ended" ELSE @]
  /\ sources' = sources \ {i}
  /\ UNCHANGED << appVars, deviceVars, session, ws, nextStartTime, epoch,
                  stopRaised, msgs,
                  now, toolVars, connPc, discPc, discDone, sessCount, capVars, callVars >>

\* the callback given to this.session.then(...): session.sendToolResponse
RunThen ==
  /\ SessionReady(session)
  /\ thenQueue # << >>
  /\ sentAcks' = Append(sentAcks, Head(thenQueue))
  /\ thenQueue' = Tail(thenQueue)
  /\ UNCHANGED << appVars, deviceVars, session, ws, playVars, msgs, now,
                  notified, fcCount, connPc, discPc, discDone, sessCount, capVars, callVars >>

\* the output device clock advances while the output context runs
Tick ==
  /\ outputAudioContext = "running"
  /\ now < MaxTime
  /\ now' = now + 1
  /\ UNCHANGED << appVars, deviceVars, session, ws, playVars, msgs, toolVars,
                  connPc, discPc, discDone, sessCount, capVars, callVars >>

(* ----------------------------- disconnect ----------------------------- *)
\* disconnect(): `if (node) node.disconnect()` for the capture tap
DisconnectTap(tap) == IF tap = "null" THEN tap ELSE "disconnected"

\* disconnect() that leaves the tracks of the stream running
StopTracks_Skipped(str) == str

\* disconnect(): `if (this.stream) this.stream.getTracks().forEach(stop)`
StopTracks(str) == IF str = "null" THEN str ELSE "stopped"

\* `await ctx.close()`: close() of an AudioContext that is already closed
\* rejects with InvalidStateError; of a running one it resolves later
CloseRejects(ctx) == ctx = "closed"

\* LiveClient.disconnect up to its first await, its throw or its return:
\* stopAllAudio, the tap disconnected, the tracks stopped, then close() of
\* the first context that is not null
DisconnectCall(raising) ==
  LET stopped == StopAllAudio(handles, sources, nextStartTime, raising)
      first   == IF inputAudioContext # "null" THEN inputAudioContext
                                                ELSE outputAudioContext
      rejects == ~stopped.raised /\ CloseRejects(first)
      returns == ~stopped.raised /\ first = "null"
  IN
  /\ discPc = "none"
  /\ discCalls < MaxDisconnects
  /\ raising \subseteq MayRaise(handles, sources, now)
  /\ discCalls' = discCalls + 1
  /\ discAt' = << connPc, session >>
  /\ handles' = stopped.handles
  /\ sources' = stopped.sources
  /\ nextStartTime' = stopped.nextStartTime
  /\ epoch' = epoch + 1
  /\ stopRaised' = (stopRaised \/ stopped.raised)
  /\ scriptProcessor' = DisconnectTap(scriptProcessor)
  /\ stream' = StopTracks(stream)
  /\ discRaised' = (discRaised \/ rejects)
  /\ discDone' = IF returns THEN discDone + 1 ELSE discDone
  /\ discPc' = IF stopped.raised \/ rejects \/ returns THEN "none"
               ELSE IF inputAudioContext # "null" THEN "closeIn" ELSE "closeOut"
  /\ UNCHANGED << appVars, inputAudioContext, outputAudioContext, session, ws,
                  msgs, now, toolVars, connPc, sessCount, capVars, orphans >>

\* App.handleDisconnect (the TERMINATE SESSION button) up to the first await
\* of the disconnect() it calls
DisconnectBegin(raising) ==
  /\ connectionState = "CONNECTED"
  /\ liveClientRef
  /\ discCaller' = "app"
  /\ DisconnectCall(raising)

\* disconnect() called on the client by any other caller, in any state
ClientDisconnect(raising) ==
  /\ discCaller' = "direct"
  /\ DisconnectCall(raising)

\* disconnect(): `await this.inputAudioContext.close()` resolves, close() of
\* the output context (created together with the input context) is requested
DisconnectInputClosed ==
  /\ discPc = "closeIn"
  /\ inputAudioContext' = "closed"
  /\ discPc' = IF CloseRejects(outputAudioContext) THEN "none" ELSE "closeOut"
  /\ discRaised' = (discRaised \/ CloseRejects(outputAudioContext))
  /\ UNCHANGED << appVars, outputAudioContext, stream, scriptProcessor, session,
                  ws, playVars, msgs, now, toolVars, connPc, discDone, sessCount,
                  capVars, discCalls, discCaller, discAt, orphans >>

\* disconnect(): `await this.outputAudioContext.close()` resolves and
\* disconnect returns; handleDisconnect clears the ref and resets the state
DisconnectEnd ==
  /\ discPc = "closeOut"
  /\ discCaller = "app"
  /\ outputAudioContext' = "closed"
  /\ discPc' = "none"
  /\ discDone' = discDone + 1
  /\ liveClientRef' = FALSE
  /\ connectionState' = "IDLE"
  /\ assistantMode' = "GENERAL"
  /\ UNCHANGED << inputAudioContext, stream, scriptProcessor, session, ws,
                  playVars, msgs, now, toolVars, connPc, sessCount, capVars, callVars >>

\* disconnect(): `await this.outputAudioContext.close()` resolves and
\* disconnect returns to a caller other than handleDisconnect
DisconnectReturn ==
  /\ discPc = "closeOut"
  /\ discCaller = "direct"
  /\ outputAudioContext' = "closed"
  /\ discPc' = "none"
  /\ discDone' = discDone + 1
  /\ UNCHANGED << appVars, inputAudioContext, stream, scriptProcessor, session,
                  ws, playVars, msgs, now, toolVars, connPc, sessCount, capVars,
                  callVars >>

(* --------------------------- outbound audio --------------------------- *)
\* scriptProcessor.onaudioprocess: the level is reported with onAudioData
\* (App.setVolume, no other App state), the frame is encoded and its send
\* is registered with sessionPromise.then
OnAudioProcess ==
  /\ scriptProcessor = "connected"
  /\ inputAudioContext = "running"
  /\ frameCount < MaxFrames
  /\ frameCount' = frameCount + 1
  /\ frameQueue' = Enqueue(frameQueue, frameCount + 1)
  /\ UNCHANGED << appVars, deviceVars, session, ws, playVars, msgs, now,
                  toolVars, connPc, discPc, discDone, sessCount, sentFrames,
                  sendFailed, callVars >>

\* the callback of sessionPromise.then: session.sendRealtimeInput succeeds
SendFrame ==
  /\ SessionReady(session)
  /\ frameQueue # << >>
  /\ sentFrames' = Append(sentFrames, Head(frameQueue))
  /\ frameQueue' = Tail(frameQueue)
  /\ UNCHANGED << appVars, deviceVars, session, ws, playVars, msgs, now,
                  toolVars, connPc, discPc, discDone, sessCount, frameCount,
                  sendFailed, callVars >>

\* the callback of sessionPromise.then: session.sendRealtimeInput throws;
\* the promise returned by then() rejects and nothing observes it
SendFrameFail ==
  /\ SessionReady(session)
  /\ frameQueue # << >>
  /\ frameQueue' = Tail(frameQueue)
  /\ sendFailed' = TRUE
  /\ UNCHANGED << appVars, deviceVars, session, ws, playVars, msgs, now,
                  toolVars, connPc, discPc, discDone, sessCount, frameCount,
                  sentFrames, callVars >>

\* the callback of this.session.then: session.sendToolResponse throws; the
\* promise returned by then() rejects and nothing observes it
RunThenFail ==
  /\ SessionReady(session)
  /\ thenQueue # << >>
  /\ thenQueue' = Tail(thenQueue)
  /\ sendFailed' = TRUE
  /\ UNCHANGED << appVars, deviceVars, session, ws, playVars, msgs, now,
                  notified, sentAcks, fcCount, connPc, discPc, discDone,
                  sessCount, frameCount, frameQueue, sentFrames, callVars >>

(* --------------------------- specification ---------------------------- *)
\* the user's buttons and the outcomes of connect()
Lifecycle ==
  \/ HandleStartRequest
  \/ HandlePermissionGranted
  \/ GetUserMediaOk
  \/ OnOpen
  \/ SessionResolve
  \/ OnClose

\* the failure paths of connect(), the endpoint's error event and the
\* buttons that leave the permission and the error panel
Failures ==
  \/ CancelRequest
  \/ GetUserMediaFail
  \/ HandshakeFail
  \/ OnError
  \/ Reboot

\* an inbound message that carries no tool call
AudioMessage ==
  /\ ws = "open"
  /\ Len(msgs) < MaxMsgs
  /\ \E audio \in AudioParts, interrupted \in BOOLEAN,
        raising \in SUBSET MayRaise(handles, sources, now) :
          HandleMessage(<< >>, audio, interrupted, raising)

\* an inbound message that carries a tool-call batch
ToolMessage ==
  /\ ws = "open"
  /\ Len(msgs) < MaxMsgs
  /\ fcCount < MaxCalls
  /\ \E kinds \in SeqsUpTo(FcKinds, MaxBatch) \ { << >> }, audio \in AudioParts,
        interrupted \in BOOLEAN, raising \in SUBSET MayRaise(handles, sources, now) :
          HandleMessage(kinds, audio, interrupted, raising)

\* the continuations of handleMessage and the 'ended' events
Playback ==
  \/ \E i \in DOMAIN msgs :
        /\ msgs[i].fin = "decoding"
        /\ \E raising \in SUBSET (1..(Len(handles) + 1)) : DecodeDone(i, raising)
  \/ \E i \in DOMAIN msgs : DecodeFail(i)
  \/ \E i \in DOMAIN handles : OnEnded(i)

Disconnect ==
  \/ \E raising \in SUBSET MayRaise(handles, sources, now) : DisconnectBegin(raising)
  \/ DisconnectInputClosed
  \/ DisconnectEnd

\* disconnect() called directly on the client, whatever its state
DirectDisconnect ==
  \/ \E raising \in SUBSET MayRaise(handles, sources, now) : ClientDisconnect(raising)
  \/ DisconnectInputClosed
  \/ DisconnectReturn

\* the microphone frames and their sends
Capture ==
  \/ OnAudioProcess
  \/ SendFrame

\* a send on the session throws
TransportFailure ==
  \/ SendFrameFail
  \/ RunThenFail

Next ==
  \/ Lifecycle
  \/ Failures
  \/ AudioMessage
  \/ ToolMessage
  \/ Playback
  \/ RunThen
  \/ Tick
  \/ Disconnect
  \/ DirectDisconnect
  \/ Capture
  \/ TransportFailure

Spec == Init /\ [][Next]_vars

\* The playback pipeline of one session: audio and interruption messages,
\* decodes, 'ended' events, the device clock and disconnect().
NextPlay ==
  \/ Lifecycle
  \/ AudioMessage
  \/ Playback
  \/ Tick
  \/ Disconnect

SpecPlay == Init /\ [][NextPlay]_vars

\* The tool-call protocol of one session: every kind of inbound message,
\* the acknowledgements, and the failure paths; the device clock stands.
NextTools ==
  \/ Lifecycle
  \/ Failures
  \/ AudioMessage
  \/ ToolMessage
  \/ Playback
  \/ RunThen

SpecTools == Init /\ [][NextTools]_vars

\* an inbound message that carries only a tool-call batch
ModeMessage ==
  /\ ws = "open"
  /\ Len(msgs) < MaxMsgs
  /\ fcCount < MaxCalls
  /\ \E kinds \in SeqsUpTo(FcKinds, MaxBatch) \ { << >> } :
        HandleMessage(kinds, 0, FALSE, {})

\* The application around one session: the buttons, the outcomes of
\* connect(), the endpoint's events, the microphone frames, the mode
\* requests with their acknowledgements, failing sends, and the user's
\* disconnect; no audio is played.
NextApp ==
  \/ Lifecycle
  \/ Failures
  \/ Capture
  \/ TransportFailure
  \/ ModeMessage
  \/ RunThen
  \/ Disconnect

SpecApp == Init /\ [][NextApp]_vars

\* The client as an object: connect() with its outcomes and the endpoint's
\* events, the microphone frames, and disconnect() called by its owner at
\* any moment, before connect() included, and more than once.
NextClient ==
  \/ Lifecycle
  \/ Failures
  \/ Capture
  \/ DirectDisconnect

SpecClient == Init /\ [][NextClient]_vars

(* ======================= properties of playback ======================= *)
\* two handles started one after the other with no stopAllAudio() between
Consecutive(k) ==
  /\ k \in 2..Len(handles)
  /\ handles[k].epoch = handles[k - 1].epoch

\* the end of a handle on the scheduler's time line
SchedEnd(h) == h.start + h.dur

C2_NoOverlap ==
  \A i, j \in DOMAIN handles :
    ( /\ i < j
      /\ (i \in sources \/ handles[i].st = "playing")
      /\ (j \in sources \/ handles[j].st = "playing") )
    => handles[j].start >= SchedEnd(handles[i])

\* reached: two live handles, the first one started after a decode during
\* which the device clock advanced
C2_Witness ==
  /\ Len(handles) = 2
  /\ sources = {1, 2}
  /\ handles[1].st = "playing" /\ handles[2].st = "playing"
  /\ handles[1].at > 0

\* C3 as stated: if A's message arrives before B's and no interruption
\* occurs from A's arrival to B's start, A is scheduled to start before B.
C3_FifoStartOrder ==
  \A i, j \in DOMAIN handles :
    ( /\ handles[i].msg < handles[j].msg
      /\ msgs[handles[i].msg].arrEpoch = handles[j].epoch
      /\ handles[i].epoch = handles[j].epoch )
    => handles[i].start < handles[j].start

\* C4: a step that runs stopAllAudio() leaves the live set empty, the clock
\* at 0 and no handle playing, and no exception escapes from it, also when
\* stop() throws on a source that has already finished.
C4_InterruptStopsAll ==
  [][ epoch' # epoch =>
        /\ sources' = {}
        /\ nextStartTime' = 0
        /\ \A i \in DOMAIN handles' : handles'[i].st # "playing"
        /\ ~stopRaised' ]_vars

\* reached: an interruption has stopped two handles, one of which had
\* already finished and threw on stop()
C4_Witness ==
  /\ epoch > 0
  /\ sources = {}
  /\ \E i, j \in DOMAIN handles :
       /\ i # j
       /\ handles[i].st = "stopped" /\ handles[i].threw
       /\ handles[j].st = "stopped" /\ ~handles[j].threw

\* the first handle started after an interruption
FirstAfterInterrupt(k) ==
  /\ k \in DOMAIN handles
  /\ handles[k].epoch > 0
  /\ k > 1 => handles[k - 1].epoch < handles[k].epoch

AllCalls == Flatten([i \in DOMAIN msgs |-> msgs[i].tool])

\* every acknowledgement submitted so far: those given to sendToolResponse
\* followed by those still waiting on the session promise
AllAcks == Flatten(sentAcks \o thenQueue)

\* a setAssistantMode request whose mode is one of the enumeration
ValidRequest(fc) == fc.name = "setAssistantMode" /\ fc.mode \in AssistantMode
ValidRequests == SelectSeq(AllCalls, ValidRequest)

\* the acknowledgement a request calls for: its id, and the mode named
ExpectedAck(fc) ==
  [id |-> fc.id, name |-> "setAssistantMode", result |-> << "Mode set to", fc.mode >>]

NamesValidMode(m) == m \in AssistantMode
AckNamesValidMode(a) == a.result[2] \in AssistantMode

\* C6 as stated: the notifications and the acknowledgements are exactly
\* those of the valid requests; a request whose mode is outside the
\* enumeration yields neither.
C6_InvalidModeSkipped ==
  /\ notified = [i \in 1..Len(ValidRequests) |-> ValidRequests[i].mode]
  /\ AllAcks = [i \in 1..Len(ValidRequests) |-> ExpectedAck(ValidRequests[i])]

\* C7: the notifications that name a valid mode are, in order, the modes of
\* the valid requests, one each; the acknowledgements that name a valid mode
\* are, in order, one per valid request with that request's id and mode; and
\* what has been sent is a prefix of what was submitted.
C7_ValidRequestsAcked ==
  /\ SelectSeq(notified, NamesValidMode)
       = [i \in 1..Len(ValidRequests) |-> ValidRequests[i].mode]
  /\ SelectSeq(AllAcks, AckNamesValidMode)
       = [i \in 1..Len(ValidRequests) |-> ExpectedAck(ValidRequests[i])]
  /\ Flatten(sentAcks) = SubSeq(AllAcks, 1, Len(Flatten(sentAcks)))

\* reached: a batch of two valid requests with different modes was sent
C7_Witness ==
  \E b \in DOMAIN sentAcks :
    /\ Len(sentAcks[b]) = 2
    /\ sentAcks[b][1].result[2] = "HOMEWORK"
    /\ sentAcks[b][2].result[2] = "SCIENCE"
    /\ sentAcks[b][1].id < sentAcks[b][2].id
    /\ notified = << "HOMEWORK", "SCIENCE" >>

(* ==================== properties of message dispatch ================== *)
\* the handlers that have started and not yet returned or thrown
InProgress == { i \in DOMAIN msgs : msgs[i].fin = "decoding" }

\* C8 as stated: at most one message handler is in progress at any time.
C8_OneHandlerAtATime == Cardinality(InProgress) <= 1

\* C9 as stated: when a handler is over, every part its message carried has
\* been handled: the tool calls notified, a decodable chunk started, the
\* interruption performed.
C9_AllPartsHandled ==
  /\ Len(notified) = Len(SelectSeq(AllCalls, IsSetMode))
  /\ \A i \in DOMAIN msgs :
       msgs[i].fin # "decoding" =>
         /\ msgs[i].audio > 0 => msgs[i].chunk # 0
         /\ msgs[i].interrupted => msgs[i].intDone

(* ======================= properties of disconnect ===================== *)
\* C10 as stated: when handleDisconnect() completes, the live set is empty,
\* the clock is 0, the capture tap is disconnected, the tracks are stopped,
\* both contexts are closed and the state is IDLE.
C10_DisconnectClean ==
  [][ discDone' # discDone =>
        /\ sources' = {}
        /\ nextStartTime' = 0
        /\ scriptProcessor' = "disconnected"
        /\ stream' = "stopped"
        /\ inputAudioContext' = "closed"
        /\ outputAudioContext' = "closed"
        /\ connectionState' = "IDLE" ]_vars

(* ====================== properties of disconnect ====================== *)
\* C11: disconnect() is idempotent.  Called again on a client whose
\* disconnect() has completed (both audio contexts are closed), it raises no
\* error and leaves the microphone, the tap and the contexts as they were.
C11_DisconnectIdempotent ==
  [][ (/\ inputAudioContext = "closed"
       /\ outputAudioContext = "closed"
       /\ discCalls' = discCalls + 1)
      => (~discRaised' /\ deviceVars' = deviceVars) ]_vars

\* connect() had ended in its catch block when disconnect() was last called:
\* getUserMedia had rejected (no session was requested) or the handshake
\* had failed (the session promise had rejected)
CalledAfterFailedConnect ==
  discAt[1] = "done" /\ discAt[2] \in {"null", "rejected"}

\* no microphone track runs, the tap is not connected, no context is open
Released ==
  /\ stream # "live"
  /\ scriptProcessor # "connected"
  /\ inputAudioContext # "running"
  /\ outputAudioContext # "running"

\* C12: disconnect() is safe outside a live session.  On a client on which
\* connect() was never called it raises nothing, returns at once and changes
\* nothing; called for the first time after a failed connect() it raises
\* nothing and, when it returns, the microphone and both audio contexts are
\* released.
C12_DisconnectSafeOutsideSession ==
  [][ /\ (connPc = "none" /\ discCalls' = discCalls + 1)
         => /\ discRaised' = discRaised
            /\ discDone' = discDone + 1
            /\ UNCHANGED << appVars, deviceVars, session, ws, sources,
                            nextStartTime, handles >>
      /\ (inputAudioContext = "running" /\ discCalls' = discCalls + 1
                                        /\ CalledAfterFailedConnect')
         => (discRaised' = discRaised /\ discPc' # "none")
      /\ (CalledAfterFailedConnect /\ discDone' = discDone + 1)
         => (Released' /\ discRaised' = discRaised) ]_vars

\* a handshake failed after the microphone was acquired, and a disconnect()
\* called afterwards has returned with everything released
C12_Witness ==
  /\ CalledAfterFailedConnect
  /\ session = "rejected"
  /\ stream = "stopped"
  /\ inputAudioContext = "closed"
  /\ outputAudioContext = "closed"
  /\ discCalls = 1
  /\ discDone = 1
  /\ ~discRaised

(* =================== properties of the session's end ================== *)
\* connect() has ended in its catch block: getUserMedia rejected (no session
\* was requested) or the handshake failed (the session promise rejected)
ConnectFailed == connPc = "done" /\ session \in {"null", "rejected"}

\* a session was started and is over: the application is back at IDLE (after
\* the user's disconnect, the endpoint's close event, or the reset that
\* follows an error) with no disconnect() still running
BackAtIdle == sessCount > 0 /\ connectionState = "IDLE" /\ discPc = "none"

\* C13: the microphone stream and both audio contexts are released on every
\* exit path: once connect() has failed, and once the application is back at
\* IDLE after a session, no microphone track runs and no context is open.
C13_ReleasedOnEveryExit == (ConnectFailed \/ BackAtIdle) => Released

(* ======================== properties of connect ======================= *)
\* connect() has ended and no stream was ever stored: getUserMedia rejected
MicrophoneRefused == connPc = "done" /\ stream = "null"

\* C14: when the microphone acquisition fails during connect, the error is
\* surfaced through onError (the connection state becomes ERROR at that
\* step), the streaming session is never opened and the capture path is
\* never started.
C14_MicrophoneFailure ==
  /\ [][ (connPc = "getUserMedia" /\ MicrophoneRefused')
         => connectionState' = "ERROR" ]_vars
  /\ [](MicrophoneRefused
         => /\ session = "null"
            /\ ws = "none"
            /\ scriptProcessor = "null"
            /\ frameCount = 0)

\* getUserMedia has rejected and the error panel is shown
C14_Witness == MicrophoneRefused /\ connectionState = "ERROR"

(* ===================== properties of outbound audio =================== *)
\* C15: the capture path starts only when the endpoint acknowledges the
\* open.  The tap is created at the open event and at no other step, the
\* connection state becomes CONNECTED at that event, no frame is processed
\* before the tap exists, and a frame is sent only when the session handle
\* has resolved.
C15_CaptureStartsOnOpen ==
  /\ [][ (scriptProcessor = "null" /\ scriptProcessor' # "null")
         => (ws = "connecting" /\ ws' = "open") ]_vars
  /\ [][ (ws = "connecting" /\ ws' = "open")
         => connectionState' = "CONNECTED" ]_vars
  /\ [](frameCount > 0 => scriptProcessor # "null")
  /\ [](Len(sentFrames) + Len(frameQueue) <= frameCount)
  /\ [][ Len(sentFrames') > Len(sentFrames) => session = "resolved" ]_vars

\* a frame captured in a connected session has been sent
C15_Witness ==
  /\ connectionState = "CONNECTED"
  /\ ws = "open"
  /\ frameCount > 0
  /\ Len(sentFrames) > 0

\* the frames submitted so far: those given to sendRealtimeInput followed by
\* those still waiting on the session promise
AllFrames == sentFrames \o frameQueue

\* C16: each outbound kind keeps its submission order.  Frames are numbered
\* in capture order and acknowledgements carry the ids of the endpoint's
\* numbering, so the frames sent or waiting, and the acknowledgements sent
\* or waiting, are each in strictly increasing order, those submitted while
\* the session handle was pending included.
C16_OutboundOrder ==
  /\ \A i, j \in DOMAIN AllFrames : i < j => AllFrames[i] < AllFrames[j]
  /\ \A i, j \in DOMAIN AllAcks : i < j => AllAcks[i].id < AllAcks[j].id

\* two frames and two acknowledgement batches have been sent
C16_Witness ==
  /\ sentFrames = << 1, 2 >>
  /\ Len(sentAcks) = 2

\* C17: a transport failure while sending a microphone frame or an
\* acknowledgement is never swallowed: at the step where a send throws, the
\* session is terminated and the failure is surfaced through onError (the
\* connection state is ERROR).
C17_SendFailureSurfaced ==
  [][ (~sendFailed /\ sendFailed')
      => (connectionState' = "ERROR" /\ ws' # "open") ]_vars

(* ===================== properties of a failed decode ================== *)
\* C18: a decode failure on one chunk is recovered locally.  At the step
\* where the handler of a message whose chunk does not decode ends, the
\* connection state does not change, no handle is added, the interruption
\* flag of the message is still acted on (the live set emptied, the clock at
\* 0), and without that flag the clock is left where it was.
C18_DecodeFailureLocal ==
  [][ \A i \in DOMAIN msgs :
        (/\ i \in DOMAIN msgs'
         /\ msgs[i].audio = -1
         /\ msgs[i].fin = "decoding"
         /\ msgs'[i].fin # "decoding")
        => /\ connectionState' = connectionState
           /\ msgs'[i].chunk = 0
           /\ Len(handles') = Len(handles)
           /\ msgs[i].interrupted
                => (msgs'[i].intDone /\ sources' = {} /\ nextStartTime' = 0)
           /\ ~msgs[i].interrupted => nextStartTime' = nextStartTime ]_vars

(* ==================== properties of the App's states ================== *)
\* everything but the connection state
restVars == << assistantMode, liveClientRef, deviceVars, session, ws, playVars,
               msgs, now, toolVars, connPc, discPc, discDone, sessCount,
               capVars, callVars >>

\* C19: ERROR is absorbing with respect to session events.  The only step
\* that leaves ERROR is the explicit reset, which goes to IDLE and touches
\* nothing else; no open, close, error, audio-level or mode-change callback
\* moves the state out of ERROR.
C19_ErrorAbsorbing ==
  [][ (connectionState = "ERROR" /\ connectionState' # "ERROR")
      => (connectionState' = "IDLE" /\ UNCHANGED restVars) ]_vars

\* C20: the assistant mode is GENERAL in every state whose connection state
\* is IDLE, and at the step where a new connect begins.
C20_GeneralWhenIdle ==
  /\ [](connectionState = "IDLE" => assistantMode = "GENERAL")
  /\ [][ (connPc # "getUserMedia" /\ connPc' = "getUserMedia")
         => assistantMode' = "GENERAL" ]_vars

(* ===================== properties of the live set ===================== *)
\* C21: the live set holds exactly the handles that were started and have
\* neither ended (their 'ended' event delivered) nor been stopped; every
\* step that starts a handle adds it unless the same handler stops it, and
\* the 'ended' event of a handle that an interruption has already removed
\* changes neither the set nor the clock.
C21_LiveSetExact ==
  /\ [](sources = { i \in DOMAIN handles :
                      handles[i].st = "playing" /\ ~handles[i].ev })
  /\ [][ \A i \in DOMAIN handles :
           (/\ i \in DOMAIN handles'
            /\ handles[i].st = "stopped"
            /\ ~handles[i].ev
            /\ handles'[i].ev)
           => (sources' = sources /\ nextStartTime' = nextStartTime) ]_vars

\* one handle has ended by itself, another was stopped by an interruption
\* and its late 'ended' event has been delivered
C21_Witness ==
  \E i, j \in DOMAIN handles :
    /\ handles[i].st = "ended"
    /\ handles[j].st = "stopped"
    /\ handles[j].ev
    /\ sources = {}

\* the interruptions handled so far
Interruptions == { j \in DOMAIN msgs : msgs[j].interrupted /\ msgs[j].intDone }

\* the number of stopAllAudio() calls made before the interruption of
\* message j was handled: at its arrival when it carries no audio, after
\* its own chunk was started when it does
InterruptEpoch(j) ==
  IF msgs[j].chunk = 0 THEN msgs[j].arrEpoch
                       ELSE handles[msgs[j].chunk].epoch

\* C22: an interruption cancels all pending playback, chunks still being
\* decoded included: a chunk whose message arrived before an interruption
\* message is not started after that interruption has been handled.
C22_InterruptCancelsPending ==
  \A j \in Interruptions : \A k \in DOMAIN handles :
    handles[k].msg < j => handles[k].epoch <= InterruptEpoch(j)

(* ================== properties after the disconnect =================== *)
\* disconnect() has completed on the current client: it closes the output
\* context last, and no disconnect() is running
Disconnected == outputAudioContext = "closed" /\ discPc = "none"

\* C23: after disconnect() has completed nothing of the pipeline runs again
\* for that client: no step starts a chunk or moves the clock, the live set
\* stays empty, no microphone frame is sent and no mode-change notification
\* is emitted.
C23_NothingAfterDisconnect ==
  [][ (Disconnected /\ Disconnected')
      => /\ Len(handles') <= Len(handles)
         /\ nextStartTime' = nextStartTime
         /\ sources' = {}
         /\ Len(sentFrames') <= Len(sentFrames)
         /\ Len(notified') <= Len(notified) ]_vars

(* ================= properties of the number of sessions =============== *)
\* a client holds a running microphone stream or a session that is being
\* opened or is open
Holding(c) == c.stream = "live" \/ c.ws \in {"connecting", "open"}

\* the clients that hold something: the replaced ones, as they were left,
\* and the current one
Holders ==
  Cardinality({ k \in DOMAIN orphans : Holding(orphans[k]) })
    + (IF Holding([stream |-> stream, ws |-> ws]) THEN 1 ELSE 0)

\* C24: at most one session is active at a time: there is never more than
\* one client holding a running microphone stream or an open session, and a
\* new client is created only when the previous one holds neither.
C24_OneSessionAtATime ==
  /\ [](Holders <= 1)
  /\ [][ sessCount' > sessCount
         => ~Holding([stream |-> stream, ws |-> ws]) ]_vars

====
